---- MODULE Spec2Model ----
(***************************************************************************)
(* Model of the pose editing task (CVPoseTask) and of the content layer    *)
(* element (ContentLayer) of the voyager explorer.                         *)
(*                                                                         *)
(* Number representation.  The code works on doubles; the model uses exact *)
(* fixed-point integers:                                                   *)
(*   - pointer deltas (_deltaX, _deltaY) are counted in tenths of a pixel, *)
(*     because the smallest speed multiplier is 0.1;                       *)
(*   - angles are counted in units of 0.0001 radian, so that               *)
(*     (deltaX - deltaY) * 0.002 rad = (dx10 - dy10) * 2 units;            *)
(*   - lengths are counted in units of 1/5000 world unit, so that          *)
(*     delta * size / height is an integer for the viewport heights used.  *)
(* Camera orientations are the axis-aligned rotations, held as 3x3 integer *)
(* matrices; applying a quaternion to a vector is the matrix product.      *)
(***************************************************************************)
EXTENDS Integers, Sequences, FiniteSets, TLC

VARIABLES
    isActiveTask,      \* CVTask.isActiveTask
    subscribed,        \* event types on which system holds (onPointer, this)
    observing,         \* active-node / active-document observation is on
    layout,            \* renderer.views: view -> layout
    mode,              \* ins.mode.value
    activeNode,        \* the node last announced to onActiveNode
    activeModel,       \* CVPoseTask.activeModel
    _viewport,         \* CVPoseTask._viewport
    _deltaX,           \* CVPoseTask._deltaX, tenths of a pixel
    _deltaY,           \* CVPoseTask._deltaY, tenths of a pixel
    pending,           \* pointer moves accumulated since the last drain
    matrix,            \* model -> object3D.matrix, a product of factors
    writes,            \* number of poses written so far
    _axis,             \* module temporary _axis
    _quat1,            \* module temporary _quat1, as axis and angle
    event,             \* the pointer event last emitted, as the handlers left it
    op,                \* the operation that ran last
    ret,               \* what the last tick returned: "true" or "false"
    line,              \* the source line at which the last tick left, or 0
    isConnected,       \* the content layer element is in the document
    canvas,            \* ContentLayer.canvas
    view,              \* ContentLayer.view
    manipNext,         \* ContentLayer.manipTarget.next
    resizeListener,    \* window holds onResize as a resize listener
    disposed,          \* the views on which dispose() has been called
    created,           \* number of RenderQuadViews constructed so far
    clientSize,        \* canvas.clientWidth, canvas.clientHeight
    viewSize,          \* view -> the size last passed to view.resize
    resizeEvents,      \* the details of the sv-resize events dispatched
    calls,             \* the calls the last run of onResize made, in order
    selection,         \* the component selected in the selection service
    outSize,           \* outs.size.value
    published,         \* outs.size.set() calls made by the last operation
    boundingBox,       \* model -> size of the bounding box of its object3D
    listeners,         \* scene -> subscriptions of onModelBoundingBox
    lastDocument       \* the document last announced to onActiveDocument

taskVars == <<isActiveTask, subscribed, observing, layout, mode, activeNode,
              activeModel,
              _viewport, _deltaX, _deltaY, pending, matrix, writes, _axis,
              _quat1, event, ret, line>>

layerVars == <<isConnected, canvas, view, manipNext, resizeListener,
               disposed, created, clientSize, viewSize, resizeEvents, calls>>

sceneVars == <<selection, outSize, published, boundingBox, listeners,
               lastDocument>>

vars == <<taskVars, layerVars, sceneVars, op>>

Null == "null"

----------------------------------------------------------------------------
(* Bounds *)

MaxPending == 2
MaxWrites == 1
MaxViews == 2
MaxResizeEvents == 3

----------------------------------------------------------------------------
(* Enumerations and the environment of the task *)

Off == "Off"
Translate == "Translate"
Rotate == "Rotate"
EPoseManipMode == {Off, Translate, Rotate}

Single == "Single"
Quad == "Quad"
EQuadViewLayout == {Single, Quad}

PointerTypes == {"pointer-down", "pointer-up", "pointer-move"}

Models == {"m1", "m2"}
Nodes == {"n0", "n1", "n2"}

\* NVNode.model: n0 is a node without a model
NodeModel(n) ==
    IF n = "n1" THEN "m1" ELSE IF n = "n2" THEN "m2" ELSE Null

\* renderer.views: two quad views and one view of another class
Views == {"q1", "q2", "s1"}
IsRenderQuadView(v) == v \in {"q1", "q2"}

\* documents, each with a scene of its own in its inner graph
Documents == {"d1", "d2"}
Scene(d) == IF d = "d1" THEN "scene1" ELSE "scene2"
Scenes == {Scene(d) : d \in Documents}

\* sizes of the box around a model
BoxSizes == { <<2, 3, 4>>, <<5, 5, 1>>, <<1, 1, 1>> }
BoxSize(m) == IF m = "m1" THEN <<2, 3, 4>> ELSE <<5, 5, 1>>

Viewports == {"v1", "v2", "v3", "v4"}

\* a viewport whose camera is null
NoCamera == [isCamera |-> FALSE]

Identity3 == << <<1, 0, 0>>, <<0, 1, 0>>, <<0, 0, 1>> >>
\* a camera looking down the world -Y axis (rotation by -90 degrees about X)
TopOrientation == << <<1, 0, 0>>, <<0, 0, 1>>, <<0, -1, 0>> >>

\* viewport.camera: v1, v2 orthographic, v3 perspective, v4 without a camera
Camera(v) ==
    CASE v = "v1" -> [isOrthographicCamera |-> TRUE, size |-> 10,
                      orientation |-> Identity3]
      [] v = "v2" -> [isOrthographicCamera |-> TRUE, size |-> 20,
                      orientation |-> TopOrientation]
      [] v = "v3" -> [isOrthographicCamera |-> FALSE, size |-> 10,
                      orientation |-> Identity3]
      [] OTHER -> NoCamera

\* viewport.height in pixels
Height(v) == IF v = "v2" THEN 250 ELSE 500

----------------------------------------------------------------------------
(* Vector and matrix helpers *)

\* deltas are held in tenths of a pixel
DeltaUnit == 10
\* lengths are held in units of 1/5000 world unit
LengthUnit == 5000
\* 0.002 radian per pixel, in units of 0.0001 radian per tenth of a pixel
AnglePerDelta == 2

Vec3Add(a, b) == <<a[1] + b[1], a[2] + b[2], a[3] + b[3]>>
Vec3Neg(a) == <<-a[1], -a[2], -a[3]>>
Zero3 == <<0, 0, 0>>

\* Vector3.applyQuaternion for an orientation held as a rotation matrix
ApplyQuaternion(v, q) ==
    << q[1][1] * v[1] + q[1][2] * v[2] + q[1][3] * v[3],
       q[2][1] * v[1] + q[2][2] * v[2] + q[2][3] * v[3],
       q[3][1] * v[1] + q[3][2] * v[2] + q[3][3] * v[3] >>

\* Quaternion.setFromAxisAngle: the rotation is kept as its axis and angle
SetFromAxisAngle(axis, angle) == [axis |-> axis, angle |-> angle]

\* Matrix4.makeRotationFromQuaternion: a one-factor product
MakeRotationFromQuaternion(q) ==
    IF q.angle = 0 THEN << >>
    ELSE << [kind |-> "R", axis |-> q.axis, angle |-> q.angle] >>

\* Matrix4.identity().setPosition(v): a one-factor product
MakeTranslation(v) ==
    IF v = Zero3 THEN << >> ELSE << [kind |-> "T", v |-> v] >>

\* the product of two factors when it is again a single factor
Mergeable(a, b) ==
    \/ a.kind = "T" /\ b.kind = "T"
    \/ a.kind = "R" /\ b.kind = "R" /\ (a.axis = b.axis \/ a.axis = Vec3Neg(b.axis))

Merge(a, b) ==
    IF a.kind = "T"
    THEN MakeTranslation(Vec3Add(a.v, b.v))
    ELSE MakeRotationFromQuaternion(
            [axis |-> b.axis,
             angle |-> IF a.axis = b.axis THEN a.angle + b.angle
                       ELSE b.angle - a.angle])

\* variant: the product is taken in the other order, m x this
Multiply_reversed(a, m) ==
    IF a = << >> THEN m
    ELSE IF m = << >> THEN a
    ELSE IF Mergeable(m[Len(m)], a[1])
    THEN SubSeq(m, 1, Len(m) - 1) \o Merge(m[Len(m)], a[1]) \o Tail(a)
    ELSE m \o a

\* Matrix4.multiply: this = this x m; a matrix is the product of its
\* factors, the leftmost factor being applied last
Multiply(a, m) ==
    IF a = << >> THEN m
    ELSE IF m = << >> THEN a
    ELSE IF Mergeable(a[1], m[1]) THEN Merge(a[1], m[1]) \o Tail(m)
    ELSE a \o m

IdentityMatrix == << >>

----------------------------------------------------------------------------
(* Pointer events *)

\* event.movementX, event.movementY in pixels, of a drag on viewport v1
Movements == { <<1, -1>> }

\* primary-button drags without modifier keys: from the orthographic
\* viewport v1 and, in the opposite direction, from the perspective
\* viewport v3
DragEvents ==
    [type : {"pointer-move"}, buttons : {1}, ctrlKey : {FALSE},
     shiftKey : {FALSE}, movement : Movements, viewport : {"v1"},
     stopPropagation : {FALSE}]
    \cup
    [type : {"pointer-move"}, buttons : {1}, ctrlKey : {FALSE},
     shiftKey : {FALSE}, movement : {<<-1, 1>>}, viewport : {"v3"},
     stopPropagation : {FALSE}]

\* a move with two buttons held and a press of the primary button
OtherEvents ==
    { [type |-> "pointer-move", buttons |-> 3, ctrlKey |-> FALSE,
       shiftKey |-> FALSE, movement |-> <<1, -1>>, viewport |-> "v1",
       stopPropagation |-> FALSE],
      [type |-> "pointer-down", buttons |-> 1, ctrlKey |-> FALSE,
       shiftKey |-> FALSE, movement |-> <<1, -1>>, viewport |-> "v1",
       stopPropagation |-> FALSE] }

Events == DragEvents \cup OtherEvents

NoEvent == [type |-> Null]

\* the RenderQuadViews a content layer constructs, in order
ViewIds == 1 .. MaxViews
\* a null view reference
NoView == 0
\* a view that was never resized
NoSize == << >>

\* sizes the canvas can be laid out with
Sizes == { <<640, 480>>, <<800, 480>>, <<800, 600>> }

----------------------------------------------------------------------------
(* Initial state: the task as constructed, not yet activated *)

LayerInit ==
    /\ isConnected = FALSE
    /\ canvas = Null
    /\ view = NoView
    /\ manipNext = NoView
    /\ resizeListener = FALSE
    /\ disposed = {}
    /\ created = 0
    /\ clientSize = <<0, 0>>
    /\ viewSize = [v \in ViewIds |-> NoSize]
    /\ resizeEvents = << >>
    /\ calls = << >>

\* the size output and the scene listeners once model is the active model
SceneInit(model) ==
    /\ selection = model
    /\ boundingBox = [m \in Models |-> BoxSize(m)]
    /\ outSize = IF model = Null THEN <<0, 0, 0>> ELSE boundingBox[model]
    /\ published = 0
    /\ listeners = [s \in Scenes |-> 0]
    /\ lastDocument = Null

Init ==
    /\ isActiveTask = FALSE
    /\ subscribed = {}
    /\ observing = FALSE
    /\ layout = [v \in Views |-> IF IsRenderQuadView(v) THEN Single ELSE Null]
    /\ mode = Off
    /\ activeNode = Null
    /\ activeModel = Null
    /\ _viewport = Null
    /\ _deltaX = 0
    /\ _deltaY = 0
    /\ pending = 0
    /\ matrix = [m \in Models |-> IdentityMatrix]
    /\ writes = 0
    /\ _axis = Zero3
    /\ _quat1 = SetFromAxisAngle(Zero3, 0)
    /\ event = NoEvent
    /\ op = "init"
    /\ ret = Null
    /\ line = 0
    /\ LayerInit
    /\ SceneInit(activeModel)

----------------------------------------------------------------------------
(* CVTask and the observer base class *)

\* CVTask.activateTask
SuperActivateTask == isActiveTask' = TRUE

\* CVTask.deactivateTask
SuperDeactivateTask == isActiveTask' = FALSE

startObserving == observing' = TRUE

stopObserving == observing' = FALSE

----------------------------------------------------------------------------
(* CVPoseTask *)

\* variant: only pointer-move is subscribed
SystemOn_moveOnly == subscribed' = subscribed \cup {"pointer-move"}

\* system.on(["pointer-down", "pointer-up", "pointer-move"], onPointer)
SystemOn == subscribed' = subscribed \cup PointerTypes

\* variant: the pointer-move subscription is left in place
SystemOff_keepMove == subscribed' = subscribed \ {"pointer-down", "pointer-up"}

\* system.off(["pointer-down", "pointer-up", "pointer-move"], onPointer)
SystemOff == subscribed' = subscribed \ PointerTypes

\* variant: the layout is set without the instanceof test
SetLayout_allViews(l) == layout' = [v \in Views |-> l]

\* renderer.views.forEach: every RenderQuadView gets the layout
SetLayout(l) ==
    layout' = [v \in Views |-> IF IsRenderQuadView(v) THEN l ELSE layout[v]]

activateTask ==
    /\ ~isActiveTask
    /\ SystemOn
    /\ SetLayout(Quad)
    /\ startObserving
    /\ SuperActivateTask
    /\ op' = "activateTask"
    /\ UNCHANGED layerVars
    /\ published' = 0
    /\ UNCHANGED <<selection, outSize, boundingBox, listeners, lastDocument>>
    /\ event' = NoEvent
    /\ ret' = Null
    /\ line' = 0
    /\ UNCHANGED <<mode, activeNode, activeModel, _viewport, _deltaX, _deltaY, pending,
                   matrix, writes, _axis, _quat1>>

\* variant: the pending movement is dropped on deactivation
deactivateTask_resetDelta ==
    /\ isActiveTask
    /\ SuperDeactivateTask
    /\ stopObserving
    /\ SetLayout(Single)
    /\ SystemOff
    /\ op' = "deactivateTask"
    /\ UNCHANGED layerVars
    /\ published' = 0
    /\ UNCHANGED <<selection, outSize, boundingBox, listeners, lastDocument>>
    /\ event' = NoEvent
    /\ ret' = Null
    /\ line' = 0
    /\ _deltaX' = 0
    /\ _deltaY' = 0
    /\ pending' = 0
    /\ UNCHANGED <<mode, activeNode, activeModel, _viewport, matrix, writes,
                   _axis, _quat1>>

deactivateTask ==
    /\ isActiveTask
    /\ SuperDeactivateTask
    /\ stopObserving
    /\ SetLayout(Single)
    /\ SystemOff
    /\ op' = "deactivateTask"
    /\ UNCHANGED layerVars
    /\ published' = 0
    /\ UNCHANGED <<selection, outSize, boundingBox, listeners, lastDocument>>
    /\ event' = NoEvent
    /\ ret' = Null
    /\ line' = 0
    /\ UNCHANGED <<mode, activeNode, activeModel, _viewport, _deltaX, _deltaY, pending,
                   matrix, writes, _axis, _quat1>>

\* the mode input is set from the task view
SetMode(m) ==
    /\ mode' = m
    /\ op' = "setMode"
    /\ UNCHANGED layerVars
    /\ published' = 0
    /\ UNCHANGED <<selection, outSize, boundingBox, listeners, lastDocument>>
    /\ event' = NoEvent
    /\ ret' = Null
    /\ line' = 0
    /\ UNCHANGED <<isActiveTask, subscribed, observing, layout, activeNode,
                   activeModel,
                   _viewport, _deltaX, _deltaY, pending, matrix, writes, _axis,
                   _quat1>>

\* the task is not the active task
NotActive == ~isActiveTask

\* the manipulator is off or there is no model to pose
Idle == mode = Off \/ activeModel = Null

\* no pointer movement to apply
NoDelta(deltaX, deltaY) == deltaX = 0 /\ deltaY = 0

\* variant: only a missing camera is refused
Unsupported_missingOnly(camera) == camera = NoCamera

\* a missing or a perspective camera

Unsupported(camera) == camera = NoCamera \/ ~camera.isOrthographicCamera

\* variant: Shift is tested before Ctrl
Speed_shiftFirst(e) == IF e.shiftKey THEN 100 ELSE IF e.ctrlKey THEN 1 ELSE 10

\* speed multiplier in tenths: ctrl = 0.1, shift = 10, else 1

Speed(e) == IF e.ctrlKey THEN 1 ELSE IF e.shiftKey THEN 100 ELSE 10

\* variant: any button mask that includes the primary button passes
Accepted_primaryBit(e) ==
    /\ ~Idle
    /\ e.buttons % 2 = 1
    /\ e.type = "pointer-move"

\* the event passes the guards of onPointer and is accumulated
Accepted(e) ==
    /\ ~Idle
    /\ e.buttons = 1
    /\ e.type = "pointer-move"

\* variant: the viewport of the event is not recorded
onPointer_noViewport(e) ==
    IF Accepted(e)
    THEN /\ pending < MaxPending
         /\ _deltaX' = _deltaX + e.movement[1] * Speed(e)
         /\ _deltaY' = _deltaY + e.movement[2] * Speed(e)
         /\ UNCHANGED _viewport
         /\ pending' = pending + 1
         /\ event' = [e EXCEPT !.stopPropagation = TRUE]
    ELSE /\ event' = e
         /\ UNCHANGED <<_deltaX, _deltaY, _viewport, pending>>

onPointer(e) ==
    IF Accepted(e)
    THEN /\ pending < MaxPending
         /\ _deltaX' = _deltaX + e.movement[1] * Speed(e)
         /\ _deltaY' = _deltaY + e.movement[2] * Speed(e)
         /\ _viewport' = e.viewport
         /\ pending' = pending + 1
         /\ event' = [e EXCEPT !.stopPropagation = TRUE]
    ELSE /\ event' = e
         /\ UNCHANGED <<_deltaX, _deltaY, _viewport, pending>>

\* system.emit of a pointer event: the handler runs when it is subscribed
EmitPointer(e) ==
    /\ IF e.type \in subscribed
       THEN onPointer(e)
       ELSE /\ event' = e
            /\ UNCHANGED <<_deltaX, _deltaY, _viewport, pending>>
    /\ op' = "pointer"
    /\ UNCHANGED layerVars
    /\ published' = 0
    /\ UNCHANGED <<selection, outSize, boundingBox, listeners, lastDocument>>
    /\ ret' = Null
    /\ line' = 0
    /\ UNCHANGED <<isActiveTask, subscribed, observing, layout, mode,
                   activeNode, activeModel, matrix, writes, _axis, _quat1>>

\* variant: the size is written but not published
onModelBoundingBox_noSet(model) ==
    IF model # Null
    THEN /\ outSize' = boundingBox[model]
         /\ published' = 0
    ELSE /\ published' = 0
         /\ UNCHANGED outSize

\* onModelBoundingBox with this.activeModel = model: the size of the box
\* around the model is written to the output and published
onModelBoundingBox(model) ==
    IF model # Null
    THEN /\ outSize' = boundingBox[model]
         /\ published' = 1
    ELSE /\ published' = 0
         /\ UNCHANGED outSize

\* variant: the active model is replaced only by another model
onActiveNode_keepModel(next) ==
    /\ activeNode' = next
    /\ activeModel' = IF next # Null /\ NodeModel(next) # Null
                      THEN NodeModel(next) ELSE activeModel
    /\ IF activeModel' # Null
       THEN /\ selection' = activeModel'
            /\ onModelBoundingBox(activeModel')
       ELSE /\ published' = 0
            /\ UNCHANGED <<selection, outSize>>

\* the model of the new active node, or null, becomes the active model; a
\* model is selected and its size published
onActiveNode(next) ==
    /\ activeNode' = next
    /\ activeModel' = IF next = Null THEN Null ELSE NodeModel(next)
    /\ IF activeModel' # Null
       THEN /\ selection' = activeModel'
            /\ onModelBoundingBox(activeModel')
       ELSE /\ published' = 0
            /\ UNCHANGED <<selection, outSize>>

\* the active node changes: the observer callback runs while observing
EmitActiveNode(next) ==
    /\ IF observing
       THEN onActiveNode(next)
       ELSE /\ published' = 0
            /\ UNCHANGED <<activeNode, activeModel, selection, outSize>>
    /\ op' = "activeNode"
    /\ UNCHANGED layerVars
    /\ UNCHANGED <<boundingBox, listeners, lastDocument>>
    /\ event' = NoEvent
    /\ ret' = Null
    /\ line' = 0
    /\ UNCHANGED <<isActiveTask, subscribed, observing, layout, mode,
                   _viewport, _deltaX, _deltaY, pending, matrix, writes, _axis,
                   _quat1>>

\* Publisher.on and Publisher.off of (onModelBoundingBox, this) on a scene:
\* on adds a subscription, off removes every matching one
SceneOn(l, scene) == [l EXCEPT ![scene] = @ + 1]

SceneOff(l, scene) == [l EXCEPT ![scene] = 0]

\* variant: the previous scene keeps its listener
onActiveDocument_noOff(previous, next) ==
    listeners' = IF next # Null THEN SceneOn(listeners, Scene(next))
                 ELSE listeners

\* the listener moves from the scene of the previous document to the scene
\* of the next one
onActiveDocument(previous, next) ==
    LET removed == IF previous # Null THEN SceneOff(listeners, Scene(previous))
                   ELSE listeners
    IN  listeners' = IF next # Null THEN SceneOn(removed, Scene(next))
                     ELSE removed

\* the active document changes: previous is the document announced last
EmitActiveDocument(next) ==
    /\ onActiveDocument(lastDocument, next)
    /\ lastDocument' = next
    /\ op' = "activeDocument"
    /\ published' = 0
    /\ event' = [type |-> "active-document", previous |-> lastDocument,
                 next |-> next]
    /\ ret' = Null
    /\ line' = 0
    /\ UNCHANGED layerVars
    /\ UNCHANGED <<selection, outSize, boundingBox>>
    /\ UNCHANGED <<isActiveTask, subscribed, observing, layout, mode,
                   activeNode, activeModel, _viewport, _deltaX, _deltaY,
                   pending, matrix, writes, _axis, _quat1>>

\* a scene emits "bounding-box": the handler runs once per subscription
EmitBoundingBox(scene) ==
    /\ IF listeners[scene] > 0
       THEN onModelBoundingBox(activeModel)
       ELSE /\ published' = 0
            /\ UNCHANGED outSize
    /\ op' = "boundingBox"
    /\ event' = [type |-> "bounding-box", scene |-> scene]
    /\ ret' = Null
    /\ line' = 0
    /\ UNCHANGED layerVars
    /\ UNCHANGED <<selection, boundingBox, listeners, lastDocument>>
    /\ UNCHANGED <<isActiveTask, subscribed, observing, layout, mode,
                   activeNode, activeModel, _viewport, _deltaX, _deltaY,
                   pending, matrix, writes, _axis, _quat1>>

\* the geometry of a model changes the box around its object3D
SetBoundingBox(model, box) ==
    /\ boundingBox[model] # box
    /\ boundingBox' = [boundingBox EXCEPT ![model] = box]
    /\ op' = "setBoundingBox"
    /\ published' = 0
    /\ event' = NoEvent
    /\ ret' = Null
    /\ line' = 0
    /\ UNCHANGED layerVars
    /\ UNCHANGED <<selection, outSize, listeners, lastDocument>>
    /\ UNCHANGED <<isActiveTask, subscribed, observing, layout, mode,
                   activeNode, activeModel, _viewport, _deltaX, _deltaY,
                   pending, matrix, writes, _axis, _quat1>>

\* pixels (in tenths) to world length units: delta * (camera.size / height)
ToWorld(delta, camera, viewport) ==
    (delta * camera.size * LengthUnit) \div (DeltaUnit * Height(viewport))

\* variant: the rotation angle is taken from deltaX + deltaY
DeltaTransform_sumAngle(m, deltaX, deltaY, camera, viewport) ==
    LET quat0 == camera.orientation IN
    IF m = Rotate
    THEN LET angle == (deltaX + deltaY) * AnglePerDelta
             axis == ApplyQuaternion(<<0, 0, -1>>, quat0)
             quat == SetFromAxisAngle(axis, angle)
         IN  [axis |-> axis, quat |-> quat,
              mat4 |-> MakeRotationFromQuaternion(quat)]
    ELSE LET axis == ApplyQuaternion(
                        <<ToWorld(deltaX, camera, viewport),
                          -ToWorld(deltaY, camera, viewport), 0>>, quat0)
         IN  [axis |-> axis, quat |-> _quat1,
              mat4 |-> MakeTranslation(axis)]

\* variant: the vertical movement is not negated
DeltaTransform_noFlip(m, deltaX, deltaY, camera, viewport) ==
    LET quat0 == camera.orientation IN
    IF m = Rotate
    THEN LET angle == (deltaX - deltaY) * AnglePerDelta
             axis == ApplyQuaternion(<<0, 0, -1>>, quat0)
             quat == SetFromAxisAngle(axis, angle)
         IN  [axis |-> axis, quat |-> quat,
              mat4 |-> MakeRotationFromQuaternion(quat)]
    ELSE LET axis == ApplyQuaternion(
                        <<ToWorld(deltaX, camera, viewport),
                          ToWorld(deltaY, camera, viewport), 0>>, quat0)
         IN  [axis |-> axis, quat |-> _quat1,
              mat4 |-> MakeTranslation(axis)]

\* the delta transform of a tick: the values left in _axis and _quat1, and
\* the matrix left in _mat4 before it is multiplied with the model matrix
DeltaTransform(m, deltaX, deltaY, camera, viewport) ==
    LET quat0 == camera.orientation IN
    IF m = Rotate
    THEN LET angle == (deltaX - deltaY) * AnglePerDelta
             axis == ApplyQuaternion(<<0, 0, -1>>, quat0)
             quat == SetFromAxisAngle(axis, angle)
         IN  [axis |-> axis, quat |-> quat,
              mat4 |-> MakeRotationFromQuaternion(quat)]
    ELSE LET axis == ApplyQuaternion(
                        <<ToWorld(deltaX, camera, viewport),
                          -ToWorld(deltaY, camera, viewport), 0>>, quat0)
         IN  [axis |-> axis, quat |-> _quat1,
              mat4 |-> MakeTranslation(axis)]

\* CVModel2.setFromMatrix: the matrix becomes the pose of the model
setFromMatrix(model, mat4) ==
    /\ matrix' = [matrix EXCEPT ![model] = mat4]
    /\ writes' = writes + 1

\* variant: the delta is read but not reset
Drain_keepDelta ==
    /\ UNCHANGED <<_deltaX, _deltaY>>
    /\ pending' = 0

\* this._deltaX = this._deltaY = 0
Drain ==
    /\ _deltaX' = 0
    /\ _deltaY' = 0
    /\ pending' = 0

tick ==
    /\ op' = "tick"
    /\ UNCHANGED layerVars
    /\ published' = 0
    /\ UNCHANGED <<selection, outSize, boundingBox, listeners, lastDocument>>
    /\ event' = NoEvent
    /\ UNCHANGED <<isActiveTask, subscribed, observing, layout, mode,
                   activeNode, activeModel, _viewport>>
    /\ IF NotActive
       THEN /\ ret' = "false"
            /\ line' = 142
            /\ UNCHANGED <<_deltaX, _deltaY, pending, matrix, writes, _axis,
                        _quat1>>
       ELSE IF Idle
       THEN /\ ret' = "false"
            /\ line' = 148
            /\ UNCHANGED <<_deltaX, _deltaY, pending, matrix, writes, _axis,
                        _quat1>>
       ELSE IF NoDelta(_deltaX, _deltaY)
       THEN /\ ret' = "false"
            /\ line' = 155
            /\ UNCHANGED <<_deltaX, _deltaY, pending, matrix, writes, _axis,
                        _quat1>>
       ELSE /\ Drain
            /\ IF _viewport = Null
               THEN \* reading the camera of a null viewport throws
                    /\ ret' = "TypeError"
                    /\ line' = 160
                    /\ UNCHANGED <<matrix, writes, _axis, _quat1>>
               ELSE LET camera == Camera(_viewport) IN
                    IF Unsupported(camera)
                    THEN /\ ret' = "false"
                         /\ line' = 163
                         /\ UNCHANGED <<matrix, writes, _axis, _quat1>>
                    ELSE LET d == DeltaTransform(mode, _deltaX, _deltaY,
                                                 camera, _viewport)
                             mat4 == Multiply(d.mat4, matrix[activeModel])
                         IN  /\ writes < MaxWrites
                             /\ _axis' = d.axis
                             /\ _quat1' = d.quat
                             /\ setFromMatrix(activeModel, mat4)
                             /\ ret' = "true"
                             /\ line' = 188

----------------------------------------------------------------------------
(* ContentLayer *)

\* the two calls onResize makes
ViewResize(v, width, height) ==
    [fn |-> "view.resize", view |-> v, width |-> width, height |-> height]

DispatchEvent(width, height) ==
    [fn |-> "dispatchEvent", view |-> NoView, width |-> width,
     height |-> height]

\* variant: the notification is dispatched before the view is resized
onResize_dispatchFirst(v, size) ==
    LET width == size[1]
        height == size[2]
    IN  /\ viewSize' = IF v # NoView
                       THEN [viewSize EXCEPT ![v] = <<width, height>>]
                       ELSE viewSize
        /\ resizeEvents' = Append(resizeEvents,
                                  [width |-> width, height |-> height])
        /\ calls' = <<DispatchEvent(width, height)>> \o
                    (IF v # NoView THEN <<ViewResize(v, width, height)>>
                     ELSE << >>)

\* onResize with this.view = v and the canvas measured as size
onResize(v, size) ==
    LET width == size[1]
        height == size[2]
    IN  /\ viewSize' = IF v # NoView
                       THEN [viewSize EXCEPT ![v] = <<width, height>>]
                       ELSE viewSize
        /\ resizeEvents' = Append(resizeEvents,
                                  [width |-> width, height |-> height])
        /\ calls' = (IF v # NoView THEN <<ViewResize(v, width, height)>>
                     ELSE << >>) \o <<DispatchEvent(width, height)>>

\* CustomElement.connectedCallback: firstConnected once, then connected;
\* the element is laid out with the canvas at the given size
connected(size) ==
    /\ ~isConnected
    /\ created < MaxViews
    /\ Len(resizeEvents) < MaxResizeEvents
    /\ isConnected' = TRUE
    /\ clientSize' = size
    /\ canvas' = "canvas"
    /\ created' = created + 1
    /\ view' = created + 1
    /\ manipNext' = view'
    /\ resizeListener' = TRUE
    /\ onResize(view', clientSize')
    /\ op' = "connected"
    /\ UNCHANGED <<disposed, taskVars, sceneVars>>

\* variant: the resize listener is not removed
disconnected_keepListener ==
    /\ isConnected
    /\ isConnected' = FALSE
    /\ clientSize' = <<0, 0>>
    /\ disposed' = disposed \cup {view}
    /\ view' = NoView
    /\ manipNext' = NoView
    /\ UNCHANGED resizeListener
    /\ op' = "disconnected"
    /\ UNCHANGED <<canvas, created, viewSize, resizeEvents, calls, taskVars,
                   sceneVars>>

\* CustomElement.disconnectedCallback; a detached canvas has no layout
disconnected ==
    /\ isConnected
    /\ isConnected' = FALSE
    /\ clientSize' = <<0, 0>>
    /\ disposed' = disposed \cup {view}
    /\ view' = NoView
    /\ manipNext' = NoView
    /\ resizeListener' = FALSE
    /\ op' = "disconnected"
    /\ UNCHANGED <<canvas, created, viewSize, resizeEvents, calls, taskVars,
                   sceneVars>>

\* the window is resized and lays the canvas out anew; onResize runs when
\* it is registered as a listener
WindowResize(size) ==
    /\ clientSize' = IF isConnected THEN size ELSE <<0, 0>>
    /\ op' = "resize"
    /\ UNCHANGED <<isConnected, canvas, view, manipNext, resizeListener,
                   disposed, created, taskVars, sceneVars>>
    /\ IF resizeListener
       THEN /\ Len(resizeEvents) < MaxResizeEvents
            /\ onResize(view, clientSize')
       ELSE UNCHANGED <<viewSize, resizeEvents, calls>>

----------------------------------------------------------------------------
(* The task under the events of its environment *)

Next ==
    \/ activateTask
    \/ deactivateTask
    \/ \E m \in EPoseManipMode : SetMode(m)
    \/ \E e \in Events : EmitPointer(e)
    \/ \E n \in Nodes \cup {Null} : EmitActiveNode(n)
    \/ tick

Spec == Init /\ [][Next]_vars

----------------------------------------------------------------------------
(* One tick from every state of a range of task states.  The states are    *)
(* states the task reaches: a non-zero delta comes with the viewport of    *)
(* the event that made it, and the pose of a model is any pose.            *)

\* accumulated deltas in tenths of a pixel: 0, 1, -2.5, 50 and 100 pixels
TickDeltas == {0, 10, -25, 500, 1000}

\* poses a model has when a tick runs
TickPoses ==
    { IdentityMatrix,
      MakeTranslation(<<100, 100, 0>>),
      MakeRotationFromQuaternion(SetFromAxisAngle(<<0, 0, -1>>, 40)) }

\* the subscriptions and layouts left by the last of activateTask,
\* deactivateTask
Lifecycle(active) ==
    /\ isActiveTask = active
    /\ subscribed = IF active THEN PointerTypes ELSE {}
    /\ observing = active
    /\ layout = [v \in Views |->
                    IF IsRenderQuadView(v)
                    THEN (IF active THEN Quad ELSE Single) ELSE Null]

InitTick ==
    /\ \E active \in BOOLEAN : Lifecycle(active)
    /\ mode \in EPoseManipMode
    /\ activeNode \in Nodes \cup {Null}
    /\ activeModel = IF activeNode = Null THEN Null ELSE NodeModel(activeNode)
    /\ _deltaX \in TickDeltas
    /\ _deltaY \in TickDeltas
    /\ _viewport \in IF NoDelta(_deltaX, _deltaY)
                     THEN Viewports \cup {Null} ELSE Viewports
    /\ pending = IF NoDelta(_deltaX, _deltaY) THEN 0 ELSE 1
    /\ matrix \in [Models -> TickPoses]
    /\ writes = 0
    /\ _axis = Zero3
    /\ _quat1 = SetFromAxisAngle(Zero3, 0)
    /\ event = NoEvent
    /\ op = "init"
    /\ ret = Null
    /\ line = 0
    /\ LayerInit
    /\ SceneInit(activeModel)

NextTick == tick

SpecTick == InitTick /\ [][NextTick]_vars

----------------------------------------------------------------------------
(* One pointer event from every state of a range of task states, with      *)
(* every combination of event type, button mask and modifier keys.         *)

PointerDeltas == {0, 10, -25}

AllEvents ==
    [type : PointerTypes, buttons : {0, 1, 2, 3}, ctrlKey : BOOLEAN,
     shiftKey : BOOLEAN, movement : { <<10, 0>>, <<5, 0>>, <<-3, 7>> },
     viewport : Viewports, stopPropagation : {FALSE}]

InitPointer ==
    /\ \E active \in BOOLEAN : Lifecycle(active)
    /\ mode \in EPoseManipMode
    /\ activeNode \in Nodes \cup {Null}
    /\ activeModel = IF activeNode = Null THEN Null ELSE NodeModel(activeNode)
    /\ _deltaX \in PointerDeltas
    /\ _deltaY \in PointerDeltas
    /\ _viewport \in IF NoDelta(_deltaX, _deltaY)
                     THEN {"v1", Null} ELSE {"v1"}
    /\ pending = IF NoDelta(_deltaX, _deltaY) THEN 0 ELSE 1
    /\ matrix = [m \in Models |-> IdentityMatrix]
    /\ writes = 0
    /\ _axis = Zero3
    /\ _quat1 = SetFromAxisAngle(Zero3, 0)
    /\ event = NoEvent
    /\ op = "init"
    /\ ret = Null
    /\ line = 0
    /\ LayerInit
    /\ SceneInit(activeModel)

\* the one event under examination
NextPointer == op = "init" /\ \E e \in AllEvents : EmitPointer(e)

SpecPointer == InitPointer /\ [][NextPointer]_vars

----------------------------------------------------------------------------
(* A drag in Translate mode on model m1, then a change of the active node  *)
(* or of the mode, then a tick: all movement of a run is accumulated under *)
(* m1 and Translate, before the change.                                    *)

InitChange ==
    /\ Lifecycle(TRUE)
    /\ mode = Translate
    /\ activeNode = "n1"
    /\ activeModel = NodeModel(activeNode)
    /\ _deltaX = 0
    /\ _deltaY = 0
    /\ _viewport = Null
    /\ pending = 0
    /\ matrix \in [Models -> TickPoses]
    /\ writes = 0
    /\ _axis = Zero3
    /\ _quat1 = SetFromAxisAngle(Zero3, 0)
    /\ event = NoEvent
    /\ op = "init"
    /\ ret = Null
    /\ line = 0
    /\ LayerInit
    /\ SceneInit(activeModel)

NextChange ==
    \/ op \in {"init", "pointer"} /\ \E e \in Events : EmitPointer(e)
    \/ op = "pointer" /\ \E n \in Nodes \cup {Null} : EmitActiveNode(n)
    \/ op = "pointer" /\ \E m \in EPoseManipMode : SetMode(m)
    \/ op \in {"activeNode", "setMode"} /\ tick

SpecChange == InitChange /\ [][NextChange]_vars

----------------------------------------------------------------------------
(* The content layer under the callbacks of the document and the window *)

NextLayer ==
    \/ \E size \in Sizes : connected(size)
    \/ disconnected
    \/ \E size \in Sizes : WindowResize(size)

SpecLayer == Init /\ [][NextLayer]_vars

----------------------------------------------------------------------------
(* The task under changes of the active node and the active document and   *)
(* under bounding-box notifications of the scenes                          *)

NextScene ==
    \/ activateTask
    \/ deactivateTask
    \/ \E n \in Nodes \cup {Null} : EmitActiveNode(n)
    \/ \E d \in Documents \cup {Null} : EmitActiveDocument(d)
    \/ \E s \in Scenes : EmitBoundingBox(s)
    \/ \E m \in Models, b \in BoxSizes : SetBoundingBox(m, b)

SpecScene == Init /\ [][NextScene]_vars

----------------------------------------------------------------------------
(* Properties of tick, of the pointer handler and of the task life cycle *)

\* the conditions under which tick goes on to pose the model
TickGuards ==
    /\ isActiveTask
    /\ mode # Off
    /\ activeModel # Null
    /\ _viewport # Null
    /\ Camera(_viewport) # NoCamera
    /\ Camera(_viewport).isOrthographicCamera
    /\ ~(_deltaX = 0 /\ _deltaY = 0)

\* C1: a tick writes a pose (calls setFromMatrix) only if the task is the
\* active task, the mode is not Off, there is an active model, the camera of
\* the recorded viewport exists and is orthographic and the accumulated
\* delta is not (0, 0); in every other case the tick leaves every model
\* matrix as it is and does not return true.  A pose is written to the
\* active model only.
C1_TickWritesOnlyUnderGuards ==
    [][ op' = "tick" =>
          /\ ~TickGuards =>
                (matrix' = matrix /\ writes' = writes /\ ret' # "true")
          /\ \A m \in Models : m # activeModel => matrix'[m] = matrix[m]
      ]_vars

C1_Witness ==
    /\ op = "tick"
    /\ ret = "true"
    /\ writes = 1
    /\ matrix[activeModel] # IdentityMatrix

\* C2: an applying tick leaves the delta at (0, 0); the delta leaves (0, 0)
\* only by a pointer-move event; and a tick that finds the delta at (0, 0)
\* returns false and changes neither the delta nor any model matrix.  Hence
\* a tick after an applying tick, with no pointer-move event in between,
\* performs no transform.
C2_TickAfterDrainIsNoOp ==
    [][ /\ (op' = "tick" /\ ret' = "true") =>
                (_deltaX' = 0 /\ _deltaY' = 0)
        /\ (_deltaX = 0 /\ _deltaY = 0 /\ ~(_deltaX' = 0 /\ _deltaY' = 0)) =>
                (op' = "pointer" /\ event'.type = "pointer-move")
        /\ (op' = "tick" /\ _deltaX = 0 /\ _deltaY = 0) =>
                /\ ret' = "false"
                /\ matrix' = matrix
                /\ writes' = writes
                /\ _deltaX' = 0
                /\ _deltaY' = 0
      ]_vars

C2_Witness ==
    /\ op = "tick"
    /\ ret = "false"
    /\ writes > 0
    /\ isActiveTask
    /\ mode # Off
    /\ activeModel # Null
    /\ matrix[activeModel] # IdentityMatrix
    /\ pending = 0
    /\ _deltaX = 0
    /\ _deltaY = 0

\* the speed multiplier of the claim, in tenths: 0.1 with Ctrl, otherwise 10
\* with Shift, otherwise 1
ClaimSpeed(e) ==
    CASE e.ctrlKey -> 1
      [] ~e.ctrlKey /\ e.shiftKey -> 100
      [] OTHER -> 10

\* C3 as stated: every pointer-move event with the primary button held that
\* reaches the handler adds movement * speed to the accumulated delta.
C3_EveryDragMoveAccumulates ==
    [][ ( /\ op' = "pointer"
          /\ event'.type = "pointer-move"
          /\ event'.buttons = 1
          /\ "pointer-move" \in subscribed ) =>
            /\ _deltaX' = _deltaX + event'.movement[1] * ClaimSpeed(event')
            /\ _deltaY' = _deltaY + event'.movement[2] * ClaimSpeed(event')
      ]_vars

\* C3 amended: a pointer-move event with button mask 1 that reaches the
\* handler while the mode is not Off and a model is active adds
\* movement * speed to the accumulated delta, with speed 0.1 if Ctrl is
\* pressed, otherwise 10 if Shift is pressed, otherwise 1; every other
\* pointer event leaves the delta as it is.  So the delta before the next
\* tick is the sum of movement * speed over those events since the last
\* drain.
C3_AcceptedMovesAccumulate ==
    [][ op' = "pointer" =>
          IF /\ event'.type = "pointer-move"
             /\ event'.buttons = 1
             /\ "pointer-move" \in subscribed
             /\ mode # Off
             /\ activeModel # Null
          THEN /\ _deltaX' = _deltaX + event'.movement[1] * ClaimSpeed(event')
               /\ _deltaY' = _deltaY + event'.movement[2] * ClaimSpeed(event')
          ELSE /\ _deltaX' = _deltaX
               /\ _deltaY' = _deltaY
      ]_vars

C3_Witness ==
    /\ op = "pointer"
    /\ event.type = "pointer-move"
    /\ event.stopPropagation
    /\ event.ctrlKey
    /\ event.shiftKey
    /\ event.movement = <<-3, 7>>
    /\ _deltaX = 10 - 3
    /\ _deltaY = -25 + 7

\* C4: when a node without a model is announced, the active model becomes
\* null; it stays null until a node with a model is announced; and while it
\* is null every tick returns false and writes no pose, whatever the mode
\* and the pointer events received.
C4_NoModelNoTransform ==
    [][ /\ (op' = "activeNode" /\ observing /\ NodeModel(activeNode') = Null)
                => activeModel' = Null
        /\ (activeModel = Null /\ activeModel' # Null)
                => (op' = "activeNode" /\ NodeModel(activeNode') # Null)
        /\ (op' = "tick" /\ activeModel = Null)
                => (ret' = "false" /\ matrix' = matrix /\ writes' = writes)
      ]_vars

C4_Witness ==
    /\ op = "tick"
    /\ ret = "false"
    /\ activeNode = "n0"
    /\ activeModel = Null
    /\ isActiveTask
    /\ mode # Off
    /\ _deltaX # 0

\* C5: while the task is deactivated the pointer handler is not subscribed,
\* and no pointer event and no tick changes a model matrix, the accumulated
\* delta or the layout of a view; every such tick returns false.
C5_DeactivatedTaskIsInert ==
    [][ /\ ~isActiveTask' => subscribed' = {}
        /\ (~isActiveTask /\ op' \in {"pointer", "tick"}) =>
                /\ matrix' = matrix
                /\ _deltaX' = _deltaX
                /\ _deltaY' = _deltaY
                /\ layout' = layout
                /\ (op' = "tick" => ret' = "false")
      ]_vars

C5_Witness ==
    /\ op = "pointer"
    /\ ~isActiveTask
    /\ event.type = "pointer-move"
    /\ event.buttons = 1
    /\ mode # Off
    /\ activeModel # Null
    /\ _deltaX # 0

\* C6: activateTask leaves the pointer handler subscribed to pointer-down,
\* pointer-up and pointer-move and the task observing active-node and
\* active-document changes; deactivateTask leaves neither; no other
\* operation changes the subscriptions.
C6_SubscribedExactlyWhileActivated ==
    [][ /\ op' = "activateTask" =>
                (subscribed' = PointerTypes /\ observing')
        /\ op' = "deactivateTask" =>
                (subscribed' = {} /\ ~observing')
        /\ op' \notin {"activateTask", "deactivateTask"} =>
                (subscribed' = subscribed /\ observing' = observing)
      ]_vars

C6_Witness ==
    /\ op = "activateTask"
    /\ activeNode # Null
    /\ subscribed = PointerTypes
    /\ observing

\* C7: activateTask sets the layout of every RenderQuadView to Quad and
\* deactivateTask sets it to Single; both leave the other views unchanged.
C7_LayoutFollowsActivation ==
    [][ /\ op' = "activateTask" =>
            \A v \in Views :
                layout'[v] = IF v \in {"q1", "q2"} THEN Quad ELSE layout[v]
        /\ op' = "deactivateTask" =>
            \A v \in Views :
                layout'[v] = IF v \in {"q1", "q2"} THEN Single ELSE layout[v]
      ]_vars

C7_Witness ==
    /\ op = "deactivateTask"
    /\ layout["q1"] = Single
    /\ layout["q2"] = Single
    /\ layout["s1"] = Null

\* the world direction of the camera's local -Z axis: the negated third
\* column of the camera orientation
CameraMinusZ(q) == << -q[1][3], -q[2][3], -q[3][3] >>

\* a world vector in the camera's frame: the transposed orientation applied
ToCameraFrame(v, q) ==
    << q[1][1] * v[1] + q[2][1] * v[2] + q[3][1] * v[3],
       q[1][2] * v[1] + q[2][2] * v[2] + q[3][2] * v[3],
       q[1][3] * v[1] + q[2][3] * v[2] + q[3][3] * v[3] >>

\* C8: in Rotate mode an applying tick rotates by (deltaX - deltaY) * 0.002
\* radian about the camera's local -Z axis taken to world space; deltaX =
\* 100, deltaY = 0 and an identity camera orientation give 0.2 radian about
\* (0, 0, -1).  Angles are in units of 0.0001 radian, deltas in tenths.
C8_RotateAngleAndAxis ==
    [][ (op' = "tick" /\ ret' = "true" /\ mode = Rotate) =>
          LET q == Camera(_viewport).orientation IN
          /\ 10 * _quat1'.angle = (_deltaX - _deltaY) * 20
          /\ _quat1'.axis = CameraMinusZ(q)
          /\ matrix'[activeModel] =
                Multiply(IF _quat1'.angle = 0 THEN << >>
                         ELSE << [kind |-> "R", axis |-> CameraMinusZ(q),
                                  angle |-> _quat1'.angle] >>,
                         matrix[activeModel])
          /\ (_deltaX = 1000 /\ _deltaY = 0 /\ q = Identity3) =>
                _quat1' = [axis |-> <<0, 0, -1>>, angle |-> 2000]
      ]_vars

C8_Witness ==
    /\ op = "tick"
    /\ ret = "true"
    /\ mode = Rotate
    /\ _viewport = "v1"
    /\ Camera("v1").orientation = Identity3
    /\ _quat1 = [axis |-> <<0, 0, -1>>, angle |-> 2000]
    /\ matrix[activeModel] =
            << [kind |-> "R", axis |-> <<0, 0, -1>>, angle |-> 2000] >>

\* C9: in Translate mode an applying tick displaces by (deltaX * f,
\* -deltaY * f, 0) rotated by the camera orientation, f = camera size /
\* viewport height; size 10, height 500, deltaX = 50, deltaY = 0 and an
\* identity orientation give x = 1.0, y = 0.  Lengths are in units of
\* 1/5000, deltas in tenths.
C9_TranslateDisplacement ==
    [][ (op' = "tick" /\ ret' = "true" /\ mode = Translate) =>
          LET camera == Camera(_viewport)
              local == ToCameraFrame(_axis', camera.orientation)
          IN
          /\ local[1] * 10 * Height(_viewport) = _deltaX * camera.size * 5000
          /\ local[2] * 10 * Height(_viewport) = -_deltaY * camera.size * 5000
          /\ local[3] = 0
          /\ matrix'[activeModel] =
                Multiply(IF _axis' = <<0, 0, 0>> THEN << >>
                         ELSE << [kind |-> "T", v |-> _axis'] >>,
                         matrix[activeModel])
          /\ (_deltaX = 500 /\ _deltaY = 0 /\ _viewport = "v1") =>
                _axis' = <<5000, 0, 0>>
      ]_vars

C9_Witness ==
    /\ op = "tick"
    /\ ret = "true"
    /\ mode = Translate
    /\ _viewport = "v1"
    /\ Camera("v1").size = 10
    /\ Height("v1") = 500
    /\ Camera("v1").orientation = Identity3
    /\ _axis = <<5000, 0, 0>>
    /\ matrix[activeModel] = << [kind |-> "T", v |-> <<5000, 0, 0>>] >>

----------------------------------------------------------------------------
(* Properties of the content layer *)

\* C10: after any sequence of attach and detach callbacks the content layer
\* is either attached, with a live view, manipTarget.next that view and
\* onResize registered on the window, or unattached, with a null view, every
\* view constructed so far disposed, manipTarget.next null and onResize not
\* registered.
C10_TwoLifecycleStates ==
    \/ /\ op \in {"connected", "resize"}
       /\ isConnected
       /\ view \in 1 .. created
       /\ view \notin disposed
       /\ manipNext = view
       /\ resizeListener
    \/ /\ op \in {"init", "disconnected", "resize"}
       /\ ~isConnected
       /\ view = NoView
       /\ disposed = 1 .. created
       /\ manipNext = NoView
       /\ ~resizeListener

C10_Witness ==
    /\ op = "disconnected"
    /\ created = 2
    /\ disposed = {1, 2}
    /\ view = NoView
    /\ ~resizeListener

\* C11: every run of onResize, on a window resize while attached and once
\* on attach, dispatches exactly one sv-resize notification whose width and
\* height are the client width and height of the canvas measured in that
\* run, and before that calls view.resize on the view with the same width
\* and height; without a run nothing is dispatched and no view is resized.
C11_ResizePublishesMeasuredSize ==
    [][ IF op' = "connected" \/ (op' = "resize" /\ resizeListener)
        THEN /\ view' # NoView
             /\ calls' =
                   << [fn |-> "view.resize", view |-> view',
                       width |-> clientSize'[1], height |-> clientSize'[2]],
                      [fn |-> "dispatchEvent", view |-> NoView,
                       width |-> clientSize'[1], height |-> clientSize'[2]] >>
             /\ resizeEvents' =
                   resizeEvents \o << [width |-> clientSize'[1],
                                       height |-> clientSize'[2]] >>
             /\ viewSize' = [viewSize EXCEPT ![view'] = clientSize']
        ELSE /\ resizeEvents' = resizeEvents
             /\ viewSize' = viewSize
             /\ calls' = calls
      ]_vars

C11_Witness ==
    /\ op = "resize"
    /\ isConnected
    /\ Len(resizeEvents) = 2
    /\ resizeEvents[1] # resizeEvents[2]
    /\ resizeEvents[2] = [width |-> clientSize[1], height |-> clientSize[2]]
    /\ viewSize[view] = clientSize
    /\ Len(calls) = 2

\* C12: a tick that runs with the task active, a mode other than Off, an
\* active model and a non-zero delta, but finds the camera of the recorded
\* viewport missing or not orthographic, returns false, leaves every model
\* matrix unchanged and leaves the delta at (0, 0): the movement accumulated
\* up to that tick is discarded.
C12_UnsupportedCameraDiscardsDelta ==
    [][ ( /\ op' = "tick"
          /\ isActiveTask
          /\ mode # Off
          /\ activeModel # Null
          /\ ~(_deltaX = 0 /\ _deltaY = 0)
          /\ _viewport # Null
          /\ \/ Camera(_viewport) = NoCamera
             \/ ~Camera(_viewport).isOrthographicCamera )
        => /\ ret' = "false"
           /\ matrix' = matrix
           /\ writes' = writes
           /\ _deltaX' = 0
           /\ _deltaY' = 0
      ]_vars

C12_Witness ==
    /\ op = "tick"
    /\ line = 163
    /\ ret = "false"
    /\ isActiveTask
    /\ mode # Off
    /\ activeModel # Null
    /\ _viewport \in {"v3", "v4"}
    /\ _deltaX = 0
    /\ _deltaY = 0

\* C13: the pointer handler adds to the delta, records the viewport of the
\* event and sets stopPropagation on the event only for a pointer-move
\* event whose button mask is exactly 1, received while the mode is not Off
\* and an active model exists.  Pointer-down and pointer-up events, moves
\* with any other button mask, and every event received while the mode is
\* Off or no model is active leave the delta, the recorded viewport and the
\* propagation flag of the event as they were.
C13_PointerFrame ==
    [][ op' = "pointer" =>
          IF /\ event'.type \in subscribed
             /\ event'.type = "pointer-move"
             /\ event'.buttons = 1
             /\ mode # Off
             /\ activeModel # Null
          THEN /\ _viewport' = event'.viewport
               /\ event'.stopPropagation
               /\ _deltaX' = _deltaX + event'.movement[1] * Speed(event')
               /\ _deltaY' = _deltaY + event'.movement[2] * Speed(event')
          ELSE /\ _viewport' = _viewport
               /\ ~event'.stopPropagation
               /\ _deltaX' = _deltaX
               /\ _deltaY' = _deltaY
      ]_vars

C13_Witness ==
    /\ op = "pointer"
    /\ event.type = "pointer-move"
    /\ event.buttons = 1
    /\ event.stopPropagation
    /\ mode = Rotate
    /\ activeModel = "m2"
    /\ _viewport = "v4"
    /\ _viewport = event.viewport
    /\ _deltaX = 10 + 5 * 100
    /\ _deltaY = -25

\* a product of factors with adjacent factors of one kind combined
RECURSIVE Normal(_)
Normal(s) ==
    IF Len(s) < 2 THEN s
    ELSE LET r == Normal(Tail(s)) IN
         IF r = << >> THEN << s[1] >>
         ELSE IF Mergeable(s[1], r[1]) THEN Merge(s[1], r[1]) \o Tail(r)
         ELSE << s[1] >> \o r

\* the rotation part of a matrix: its rotation factors in order
Linear(m) == SelectSeq(m, LAMBDA f : f.kind = "R")

\* the position of a matrix, the image of the origin: the product without
\* the rotations applied first, which leave the origin where it is
RECURSIVE Position(_)
Position(m) ==
    IF m = << >> THEN << >>
    ELSE IF m[Len(m)].kind = "R" THEN Position(SubSeq(m, 1, Len(m) - 1))
    ELSE m

\* the point p displaced by the vector d
Displaced(d, p) ==
    IF d = Zero3 THEN p
    ELSE IF p # << >> /\ p[1].kind = "T"
    THEN (IF Vec3Add(d, p[1].v) = Zero3 THEN Tail(p)
          ELSE << [kind |-> "T", v |-> Vec3Add(d, p[1].v)] >> \o Tail(p))
    ELSE << [kind |-> "T", v |-> d] >> \o p

\* C14: an applying tick writes the product delta transform x model matrix,
\* the delta transform on the left, so that the delta is applied after the
\* previous pose.  In Translate mode the new matrix has the rotation part of
\* the old one and its position is the old position plus the displacement
\* vector; in Rotate mode a translated model is turned about the origin.
C14_DeltaOnTheLeft ==
    [][ (op' = "tick" /\ ret' = "true") =>
          LET old == matrix[activeModel]
              new == matrix'[activeModel]
              delta == IF mode = Rotate
                       THEN (IF _quat1'.angle = 0 THEN << >>
                             ELSE << [kind |-> "R", axis |-> _quat1'.axis,
                                      angle |-> _quat1'.angle] >>)
                       ELSE (IF _axis' = Zero3 THEN << >>
                             ELSE << [kind |-> "T", v |-> _axis'] >>)
          IN  /\ new = Normal(delta \o old)
              /\ mode = Translate =>
                    /\ Linear(new) = Linear(old)
                    /\ Position(new) = Displaced(_axis', Position(old))
              /\ (mode = Rotate /\ delta # << >> /\ old # << >>
                    /\ old[1].kind = "T") => new = delta \o old
      ]_vars

C14_Witness ==
    /\ op = "tick"
    /\ ret = "true"
    /\ mode = Translate
    /\ Len(matrix[activeModel]) = 2
    /\ matrix[activeModel][1] = [kind |-> "T", v |-> _axis]
    /\ matrix[activeModel][2].kind = "R"

\* C17: in every reachable state a delta other than (0, 0) comes with a
\* recorded viewport, so that no tick reads the camera or the height of a
\* null viewport: the delta is changed to a non-zero value only by the
\* pointer handler, in the step in which it records the viewport of the
\* event, and a recorded viewport is never reset to null.
C17_DeltaImpliesViewport ==
    [][ /\ ~(_deltaX = 0 /\ _deltaY = 0) => _viewport # Null
        /\ ~(_deltaX' = 0 /\ _deltaY' = 0) => _viewport' # Null
        /\ ret' # "TypeError"
        /\ line' # 160
        /\ (<<_deltaX', _deltaY'>> # <<_deltaX, _deltaY>>
                /\ ~(_deltaX' = 0 /\ _deltaY' = 0)) =>
              /\ op' = "pointer"
              /\ _viewport' = event'.viewport
              /\ _viewport' # Null
        /\ _viewport # Null => _viewport' # Null
      ]_vars

C17_Witness ==
    /\ op = "tick"
    /\ line = 188
    /\ _viewport = "v1"
    /\ pending = 0
    /\ _deltaX = 0
    /\ _deltaY = 0
    /\ writes = 1

\* C18: every transform a tick applies is built only from pointer movement
\* accumulated while the model it is applied to was the active model and
\* the mode it is applied in was the selected mode: movement accumulated
\* before a change of the active node or of ins.mode is never applied to the
\* newly active model or in the newly selected mode.  In a run of a drag on
\* m1 in Translate mode, a change and a tick, an applying tick therefore
\* poses m1 in Translate mode, and the matrix of m2 stays as it was.
C18_TickAppliesOwnMovementOnly ==
    [][ (op' = "tick" /\ ret' = "true") =>
          /\ activeModel = "m1"
          /\ mode = Translate
          /\ matrix'["m2"] = matrix["m2"]
      ]_vars

\* a tick that returns before it reads the delta leaves the delta, the
\* recorded viewport and every pose as they are, and so do activateTask and
\* deactivateTask
EarlyReturnKeepsMovement ==
    /\ (op' = "tick" /\ (~isActiveTask \/ mode = Off \/ activeModel = Null)) =>
          /\ ret' = "false"
          /\ line' \in {142, 148}
          /\ <<_deltaX', _deltaY', _viewport', pending'>> =
                <<_deltaX, _deltaY, _viewport, pending>>
          /\ matrix' = matrix
    /\ op' \in {"activateTask", "deactivateTask"} =>
          /\ <<_deltaX', _deltaY', _viewport', pending'>> =
                <<_deltaX, _deltaY, _viewport, pending>>
          /\ matrix' = matrix

\* the tick is one at which the task is active, the mode is not Off and a
\* model is active, and movement is pending
TickWithPendingMovement ==
    /\ op' = "tick"
    /\ isActiveTask
    /\ mode # Off
    /\ activeModel # Null
    /\ ~(_deltaX = 0 /\ _deltaY = 0)

\* the tick applies the pending movement to the active model
AppliesPendingMovement ==
    /\ ret' = "true"
    /\ _deltaX' = 0
    /\ _deltaY' = 0
    /\ matrix'[activeModel] =
          Multiply(DeltaTransform(mode, _deltaX, _deltaY, Camera(_viewport),
                                  _viewport).mat4,
                   matrix[activeModel])

\* C19 as stated: a tick that returns early because the task is not active,
\* the mode is Off or no model is active leaves _deltaX, _deltaY, _viewport
\* and every pose unchanged, and the movement still pending is applied by
\* the first later tick at which the task is active, the mode is not Off
\* and a model is active, also after deactivateTask and activateTask.
C19_PendingMovementIsApplied ==
    [][ /\ EarlyReturnKeepsMovement
        /\ TickWithPendingMovement => AppliesPendingMovement
      ]_vars

\* C19, amended: a tick that returns early because the task is not active,
\* the mode is Off or no model is active leaves _deltaX, _deltaY, _viewport
\* and every pose unchanged, also across deactivateTask and activateTask;
\* the first later tick at which the task is active, the mode is not Off
\* and a model is active consumes the movement still pending: it applies it
\* when the camera of the recorded viewport is orthographic and discards it
\* when that camera is missing or not orthographic.
C19_PendingMovementIsConsumed ==
    [][ /\ EarlyReturnKeepsMovement
        /\ TickWithPendingMovement =>
              IF Camera(_viewport) # NoCamera
                    /\ Camera(_viewport).isOrthographicCamera
              THEN AppliesPendingMovement
              ELSE /\ ret' = "false"
                   /\ _deltaX' = 0
                   /\ _deltaY' = 0
                   /\ matrix' = matrix
      ]_vars

C19_Witness ==
    /\ op = "tick"
    /\ line = 142
    /\ ~isActiveTask
    /\ mode # Off
    /\ activeModel # Null
    /\ pending = 2
    /\ _viewport = "v1"
    /\ ~(_deltaX = 0 /\ _deltaY = 0)

----------------------------------------------------------------------------
(* Properties of the size output and of the scene listener *)

\* C15: every onActiveNode call that adopts a model selects that model in
\* the selection service and, in the same call, writes the size of the
\* bounding box of that model to outs.size and publishes it, so that after
\* every such change outs.size holds the size of the active model; a
\* bounding-box notification that reaches the handler while a model is
\* active does the same for the active model.  A call that adopts no model
\* leaves the selection and the size output as they were, and the size
\* output changes in no other operation.
C15_SizeFollowsActiveModel ==
    [][ /\ (op' = "activeNode" /\ observing /\ activeModel' # Null) =>
              /\ selection' = activeModel'
              /\ outSize' = boundingBox'[activeModel']
              /\ published' = 1
        /\ (op' = "activeNode" /\ observing /\ activeModel' = Null) =>
              /\ selection' = selection
              /\ outSize' = outSize
              /\ published' = 0
        /\ (op' = "boundingBox" /\ listeners[event'.scene] > 0
                /\ activeModel # Null) =>
              /\ outSize' = boundingBox'[activeModel]
              /\ published' = 1
        /\ op' \notin {"activeNode", "boundingBox"} =>
              (outSize' = outSize /\ published' = 0 /\ selection' = selection)
      ]_vars

C15_Witness ==
    /\ op = "activeNode"
    /\ activeModel = "m2"
    /\ selection = "m2"
    /\ published = 1
    /\ boundingBox["m2"] = <<1, 1, 1>>
    /\ outSize = <<1, 1, 1>>

\* C16: after any sequence of active-document changes delivered to
\* onActiveDocument, the previous document of each call being the next
\* document of the call before, the bounding-box listener is subscribed on
\* at most one scene and exactly once: on the scene of the current active
\* document, and on no scene when there is no active document.  No scene of
\* a document that is no longer active keeps the listener.
C16_ListenerOnActiveSceneOnly ==
    \A d \in Documents :
        listeners[Scene(d)] = IF d = lastDocument THEN 1 ELSE 0

C16_Witness ==
    /\ op = "activeDocument"
    /\ event.previous = "d1"
    /\ event.next = "d2"
    /\ lastDocument = "d2"
    /\ listeners[Scene("d1")] = 0
    /\ listeners[Scene("d2")] = 1

====
